---- MODULE Spec2Model ----
(***************************************************************************)
(* Streaming chat panel of frontend/components/ChatPanel.tsx.              *)
(*                                                                         *)
(* Text is a sequence of segments.  A segment is a literal piece of the    *)
(* text (ASCII, so bytes and characters coincide): the concatenation of    *)
(* the segments of a wire body is the text the server sends.  A chunk      *)
(* delivered by reader.read() is any non-empty run of consecutive          *)
(* segments, so chunk boundaries fall inside the 'data: ' marker, inside   *)
(* a payload, before and after a line terminator.                          *)
(***************************************************************************)
EXTENDS Naturals, Sequences, FiniteSets, TLC

VARIABLES
    isOpen,            \* prop isOpen
    messages,          \* useState: history
    isTyping,          \* useState: a turn is in flight
    currentResponse,   \* useState: partial text shown while streaming
    inputValue,        \* useState: text area content
    pc,                \* where handleSend is suspended: "idle", "fetch", "read"
    response,          \* the Response that fetch resolved with
    pos,               \* number of segments of response.body already read
    assistantContent,  \* local of handleSend
    needsSync,         \* local of handleSend
    now,               \* Date.now()
    pendingHistory,    \* chatAPI.getHistory() calls not yet settled
    historyCalls,      \* fetchHistory calls made so far
    turns,             \* accepted submits so far
    events,            \* history variable: events the read loop acted on, this turn
    syncCalls,         \* history variable: onTaskMutation calls of this turn
    outcome,           \* history variable: how the last turn ended
    openRequests,      \* history variable: chat requests opened and not finished
    turnStart          \* history variable: history right after the submit, kept
                       \* while fetch is pending

vars == <<isOpen, messages, isTyping, currentResponse, inputValue, pc, response,
          pos, assistantContent, needsSync, now, pendingHistory, historyCalls,
          turns, events, syncCalls, outcome, openRequests, turnStart>>

----------------------------------------------------------------------------
(* Bounds *)

MaxTurns == 2
MaxHistoryCalls == 1
MaxTick == 1

----------------------------------------------------------------------------
(* Text helpers: String.prototype.trim, split, startsWith, slice *)

Whitespace == {" ", "\n", "\r", "\t"}

RECURSIVE TrimStart(_)
TrimStart(s) ==
    IF s # <<>> /\ Head(s) \in Whitespace THEN TrimStart(Tail(s)) ELSE s

RECURSIVE TrimEnd(_)
TrimEnd(s) ==
    IF s # <<>> /\ s[Len(s)] \in Whitespace
    THEN TrimEnd(SubSeq(s, 1, Len(s) - 1))
    ELSE s

Trim(s) == TrimEnd(TrimStart(s))

RECURSIVE SplitLines(_)
SplitLines(s) ==
    IF \E i \in 1..Len(s) : s[i] = "\n"
    THEN LET i == CHOOSE k \in 1..Len(s) :
                      s[k] = "\n" /\ \A j \in 1..(k - 1) : s[j] # "\n"
         IN  <<SubSeq(s, 1, i - 1)>> \o SplitLines(SubSeq(s, i + 1, Len(s)))
    ELSE <<s>>

StartsWith(s, p) == Len(s) >= Len(p) /\ SubSeq(s, 1, Len(p)) = p

DataPrefix == <<"da", "ta: ">>

SliceData(line) == SubSeq(line, Len(DataPrefix) + 1, Len(line))

DoneToken == <<"[DONE]">>

----------------------------------------------------------------------------
(* The wire: records, their JSON text, frames and response bodies *)

TextRec(c) == [type |-> "text", content |-> c]
ToolRec == [type |-> "tool_call", content |-> <<>>]
PingRec == [type |-> "ping", content |-> <<>>]
NoTypeRec == [type |-> "", content |-> <<>>]

Deltas == {<<"Sure, ">>, <<"adding it now.">>, <<"ok">>}

JSONValues == {TextRec(c) : c \in Deltas} \cup {ToolRec, PingRec, NoTypeRec}

Stringify(v) ==
    IF v.type = "text"
    THEN <<"{\"typ", "e\":\"text\",\"content\":\"">> \o v.content \o <<"\"}">>
    ELSE IF v.type = "tool_call"
    THEN <<"{\"type\":\"tool_call\"}">>
    ELSE IF v.type = "ping"
    THEN <<"{\"type\":\"ping\"}">>
    ELSE <<"{}">>

JSONparse(data) ==
    IF \E v \in JSONValues : Stringify(v) = data
    THEN [ok |-> TRUE, value |-> CHOOSE v \in JSONValues : Stringify(v) = data]
    ELSE [ok |-> FALSE, value |-> PingRec]

Frame(payload) == DataPrefix \o payload \o <<"\n">>

DoneFrame == Frame(DoneToken)

BodyA ==
    Frame(Stringify(TextRec(<<"Sure, ">>)))
    \o Frame(Stringify(TextRec(<<"adding it now.">>)))
    \o Frame(Stringify(ToolRec)) \o DoneFrame

BodyB == Frame(Stringify(TextRec(<<"ok">>)) \o <<"\r">>) \o <<"\n">> \o DoneFrame

BodyTools == Frame(Stringify(ToolRec)) \o Frame(Stringify(ToolRec)) \o DoneFrame

BodyAfterDone == DoneFrame \o Frame(Stringify(TextRec(<<"ok">>)))

(* Text after 'data: ' that JSON.parse rejects *)
MalformedPayloads == {<<"{oops">>, <<"{\"typ">>}

BodyNoise ==
    Frame(<<"{oops">>) \o Frame(Stringify(PingRec)) \o Frame(Stringify(NoTypeRec))
    \o Frame(Stringify(TextRec(<<"ok">>)))

BodyEmpty == <<>>

BodyErrorJson == <<"{\"detail\":", "\"Not authenticated\"}">>

(* A well-formed event stream: complete frames of protocol records, ended *)
(* by the terminal frame.                                                  *)
WellFormedBodies == {BodyA, BodyB, BodyTools}

Responses ==
    {[ok |-> TRUE, hasBody |-> TRUE, body |-> b] :
        b \in {BodyA, BodyB, BodyTools, BodyAfterDone, BodyNoise, BodyEmpty}}
    \cup {[ok |-> FALSE, hasBody |-> TRUE, body |-> BodyErrorJson]}
    \cup {[ok |-> TRUE, hasBody |-> FALSE, body |-> <<>>]}

NoResponse == [ok |-> FALSE, hasBody |-> FALSE, body |-> <<>>]

(* What the user can type into the text area *)
Inputs == {<<" ">>, <<" ", "hi", " ">>}

(* What chatAPI.getHistory() can return *)
StoredMsg ==
    [id |-> "srv-1", role |-> "user", content |-> <<"old">>, timestamp |-> 0]

ServerHistories == {<<StoredMsg>>}

----------------------------------------------------------------------------
(* handleSend: the pieces of the handler *)

GuardTextOnly(textContent, typing) == textContent = <<>>

GuardTypingOnly(textContent, typing) == typing

(* line 46: if (!textContent || isTyping) return *)
Guard(textContent, typing) == textContent = <<>> \/ typing

UserMsg(textContent, t) ==
    [id |-> ToString(t), role |-> "user", content |-> textContent,
     timestamp |-> t]

AssistantMsg(content, t) ==
    [id |-> ToString(t + 1), role |-> "assistant", content |-> content,
     timestamp |-> t]

Apology == <<"I'm sorry, I encountered an error. Please check your connection and try again.">>

ErrorMsg(t) ==
    [id |-> "error", role |-> "assistant", content |-> Apology, timestamp |-> t]

FinallyTypingStuck == TRUE

(* line 127: finally { setIsTyping(false) } *)
FinallyTyping == FALSE

AppendContentReversed(acc, delta) == delta \o acc

(* line 93: assistantContent += parsed.content *)
AppendContent(acc, delta) == acc \o delta

ShownDelta(acc, delta) == delta

(* line 94: setCurrentResponse(assistantContent) *)
ShownText(acc, delta) == acc

TextEvent(c) == [kind |-> "text", payload |-> c]
ToolEvent == [kind |-> "tool", payload |-> <<>>]
TerminalEvent == [kind |-> "terminal", payload |-> <<>>]

(* The turn as the read loop sees it; threw: an exception left the loop *)
TurnView ==
    [assistantContent |-> assistantContent, needsSync |-> needsSync,
     currentResponse |-> currentResponse, events |-> events, threw |-> FALSE]

OnParseErrorRethrow(st) == [st EXCEPT !.threw = TRUE]

(* lines 98-100: catch (e) { } *)
OnParseError(st) == st

OtherTypeAsToolCall(st) == [st EXCEPT !.needsSync = TRUE]

(* lines 92-97: no branch for a type that is neither 'text' nor 'tool_call' *)
OtherType(st) == st

(* lines 90-100: try { JSON.parse; dispatch on parsed.type } catch {} *)
ProcessData(st, data) ==
    LET parsed == JSONparse(data) IN
    IF ~parsed.ok THEN OnParseError(st)
    ELSE IF parsed.value.type = "text"
    THEN LET acc == AppendContent(st.assistantContent, parsed.value.content)
         IN  [st EXCEPT !.assistantContent = acc,
                        !.currentResponse =
                            ShownText(acc, parsed.value.content),
                        !.events = Append(@, TextEvent(parsed.value.content))]
    ELSE IF parsed.value.type = "tool_call"
    THEN [st EXCEPT !.needsSync = TRUE, !.events = Append(@, ToolEvent)]
    ELSE OtherType(st)

(* lines 85-102: for (const line of lines), left by break on '[DONE]' *)
RECURSIVE ProcessLines(_, _)
ProcessLines(st, lines) ==
    IF lines = <<>> \/ st.threw THEN st
    ELSE LET line == Head(lines) IN
         IF ~StartsWith(line, DataPrefix)
         THEN ProcessLines(st, Tail(lines))
         ELSE LET data == Trim(SliceData(line)) IN
              IF data = DoneToken
              THEN [st EXCEPT !.events = Append(@, TerminalEvent)]
              ELSE ProcessLines(ProcessData(st, data), Tail(lines))

(* lines 82-102: one iteration of the read loop on one chunk *)
ProcessChunk(st, chunk) == ProcessLines(st, SplitLines(chunk))

----------------------------------------------------------------------------
(* Actions *)

Init ==
    /\ isOpen = FALSE
    /\ messages = <<>>
    /\ isTyping = FALSE
    /\ currentResponse = <<>>
    /\ inputValue = <<>>
    /\ pc = "idle"
    /\ response = NoResponse
    /\ pos = 0
    /\ assistantContent = <<>>
    /\ needsSync = FALSE
    /\ now = 0
    /\ pendingHistory = 0
    /\ historyCalls = 0
    /\ turns = 0
    /\ events = <<>>
    /\ syncCalls = 0
    /\ outcome = "none"
    /\ openRequests = 0
    /\ turnStart = <<>>

turnVars == <<pc, response, pos, assistantContent, needsSync, turns, events,
              syncCalls, outcome, openRequests, turnStart>>

MergeHistory(msgs, history) == msgs \o history

(* line 38: setMessages(history) *)
SetHistory(msgs, history) == history

(* lines 25-29 and 35-37: isOpen becomes true (the first time, or after   *)
(* the parent closed the panel), and the effect calls fetchHistory        *)
Open ==
    /\ historyCalls < MaxHistoryCalls
    /\ isOpen' = TRUE
    /\ pendingHistory' = pendingHistory + 1
    /\ historyCalls' = historyCalls + 1
    /\ UNCHANGED <<messages, isTyping, currentResponse, inputValue, now>>
    /\ UNCHANGED turnVars

(* lines 37-38: getHistory resolves, setMessages(history) *)
HistoryResolve ==
    /\ pendingHistory > 0
    /\ \E h \in ServerHistories : messages' = SetHistory(messages, h)
    /\ pendingHistory' = pendingHistory - 1
    /\ UNCHANGED <<isOpen, isTyping, currentResponse, inputValue, now,
                   historyCalls>>
    /\ UNCHANGED turnVars

(* lines 39-41: getHistory rejects, the error is logged *)
HistoryReject ==
    /\ pendingHistory > 0
    /\ pendingHistory' = pendingHistory - 1
    /\ UNCHANGED <<isOpen, messages, isTyping, currentResponse, inputValue, now,
                   historyCalls>>
    /\ UNCHANGED turnVars

(* line 238: onChange *)
SetInput ==
    /\ isOpen
    /\ \E v \in Inputs : inputValue' = v
    /\ inputValue' # inputValue
    /\ UNCHANGED <<isOpen, messages, isTyping, currentResponse, now,
                   pendingHistory, historyCalls>>
    /\ UNCHANGED turnVars

(* Time that passed since Date.now() was last read.  The origin of time is *)
(* the first submit, so nothing is drawn before it.                       *)
Elapsed == IF turns = 0 THEN {0} ELSE 0..MaxTick

StaleLocals == [assistantContent |-> assistantContent, needsSync |-> needsSync]

(* lines 75-76: let assistantContent = ''; let needsSync = false *)
FreshLocals == [assistantContent |-> <<>>, needsSync |-> FALSE]

(* lines 44-69: handleSend up to the await of fetch *)
HandleSend ==
    /\ isOpen
    /\ LET textContent == Trim(inputValue) IN
       IF Guard(textContent, isTyping)
       THEN /\ UNCHANGED <<isOpen, messages, isTyping, currentResponse,
                           inputValue, now, pendingHistory, historyCalls>>
            /\ UNCHANGED turnVars
       ELSE /\ turns < MaxTurns
            /\ \E d \in Elapsed : now' = now + d
            /\ inputValue' = <<>>
            /\ messages' = Append(messages, UserMsg(textContent, now'))
            /\ isTyping' = TRUE
            /\ currentResponse' = <<>>
            /\ pc' = "fetch"
            /\ response' = NoResponse
            /\ pos' = 0
            /\ turns' = turns + 1
            /\ events' = <<>>
            /\ syncCalls' = 0
            /\ outcome' = "running"
            /\ openRequests' = openRequests + 1
            /\ turnStart' = messages'
            /\ UNCHANGED <<isOpen, pendingHistory, historyCalls,
                           assistantContent, needsSync>>

(* handleSend returns; what its locals held is no longer used *)
Return ==
    /\ pc' = "idle"
    /\ response' = NoResponse
    /\ pos' = 0
    /\ UNCHANGED <<assistantContent, needsSync>>
    /\ events' = <<>>
    /\ openRequests' = openRequests - 1
    /\ turnStart' = <<>>

CatchWithoutFinally(msgs, t) ==
    /\ now' = t
    /\ messages' = Append(msgs, ErrorMsg(t))
    /\ isTyping' = isTyping
    /\ Return

(* lines 118-128: catch, then finally *)
CatchFinally(msgs, t) ==
    /\ now' = t
    /\ messages' = Append(msgs, ErrorMsg(t))
    /\ isTyping' = FinallyTyping
    /\ Return

(* line 64: fetch rejects (network error) *)
FetchReject ==
    /\ pc = "fetch"
    /\ \E d \in 0..MaxTick : CatchFinally(messages, now + d)
    /\ outcome' = "failed"
    /\ UNCHANGED <<isOpen, currentResponse, inputValue, pendingHistory,
                   historyCalls, turns, syncCalls>>

(* lines 64-76: fetch resolves; a missing body throws *)
FetchResolve ==
    /\ pc = "fetch"
    /\ \E r \in Responses :
        IF ~r.hasBody
        THEN /\ \E d \in 0..MaxTick : CatchFinally(messages, now + d)
             /\ outcome' = "failed"
        ELSE /\ response' = r
             /\ pc' = "read"
             /\ pos' = 0
             /\ assistantContent' = FreshLocals.assistantContent
             /\ needsSync' = FreshLocals.needsSync
             /\ turnStart' = <<>>
             /\ UNCHANGED <<messages, isTyping, now, outcome, openRequests,
                            events>>
    /\ UNCHANGED <<isOpen, currentResponse, inputValue, pendingHistory,
                   historyCalls, turns, syncCalls>>

(* lines 79-102: read() resolves with a chunk; an exception that leaves    *)
(* the loop goes to the catch at line 118                                  *)
ReadChunk ==
    /\ pc = "read"
    /\ \E n \in 1..(Len(response.body) - pos) :
        LET chunk == SubSeq(response.body, pos + 1, pos + n)
            st == ProcessChunk(TurnView, chunk)
        IN  \/ /\ pos' = pos + n
               /\ pc' = pc
               /\ ~st.threw
               /\ currentResponse' = st.currentResponse
               /\ assistantContent' = st.assistantContent
               /\ needsSync' = st.needsSync
               /\ events' = st.events
               /\ UNCHANGED <<messages, isTyping, response, now, outcome,
                              openRequests, turnStart>>
            \/ /\ outcome' = "failed"
               /\ st.threw
               /\ currentResponse' = st.currentResponse
               /\ \E d \in 0..MaxTick : CatchFinally(messages, now + d)
    /\ UNCHANGED <<isOpen, inputValue, pendingHistory, historyCalls, turns,
                   syncCalls>>

HistoryBeforeAppend(msgs, m) == msgs

(* lines 112-116: setMessages(prev => [...prev, assistantMsg]) comes before *)
(* onTaskMutation(): the history at the time the callback runs             *)
HistoryAtSync(msgs, m) == Append(msgs, m)

(* lines 115-117: if (needsSync) onTaskMutation() *)
SyncCalls(sync) == IF sync THEN 1 ELSE 0

(* lines 79-80 and 105-117, 126-128: read() reports done, the answer is    *)
(* committed; onTaskMutation may throw into the catch                      *)
ReadDone ==
    /\ pc = "read"
    /\ pos = Len(response.body)
    /\ \E d \in 0..MaxTick, throws \in BOOLEAN :
        LET t == now + d
            committed == Append(messages, AssistantMsg(assistantContent, t))
        IN  /\ currentResponse' = <<>>
            /\ syncCalls' = SyncCalls(needsSync)
            /\ IF needsSync /\ throws
               THEN /\ CatchFinally(HistoryAtSync(messages,
                                       AssistantMsg(assistantContent, t)), t)
                    /\ outcome' = "committedThenFailed"
               ELSE /\ now' = t
                    /\ messages' = committed
                    /\ isTyping' = FinallyTyping
                    /\ Return
                    /\ outcome' = "committed"
    /\ UNCHANGED <<isOpen, inputValue, pendingHistory, historyCalls, turns>>

(* line 79: read() rejects (the connection breaks) *)
ReadError ==
    /\ pc = "read"
    /\ \E d \in 0..MaxTick : CatchFinally(messages, now + d)
    /\ outcome' = "failed"
    /\ UNCHANGED <<isOpen, currentResponse, inputValue, pendingHistory,
                   historyCalls, turns, syncCalls>>

Next ==
    \/ Open
    \/ HistoryResolve
    \/ HistoryReject
    \/ SetInput
    \/ HandleSend
    \/ FetchReject
    \/ FetchResolve
    \/ ReadChunk
    \/ ReadDone
    \/ ReadError

Spec == Init /\ [][Next]_vars

(* The network settles every request: fetch resolves or rejects, and every *)
(* read() resolves or rejects.                                             *)
Network == FetchReject \/ FetchResolve \/ ReadError \/ ReadDone \/ ReadChunk

FairSpec == Spec /\ WF_vars(Network)

----------------------------------------------------------------------------
(* Operators used to state the properties *)

FreshTurn ==
    [assistantContent |-> <<>>, needsSync |-> FALSE, currentResponse |-> <<>>,
     events |-> <<>>, threw |-> FALSE]

(* The events the read loop acts on when the whole body is one chunk *)
WholeEvents(body) == ProcessChunk(FreshTurn, body).events

RECURSIVE ConcatDeltas(_)
ConcatDeltas(evs) ==
    IF evs = <<>> THEN <<>>
    ELSE (IF Head(evs).kind = "text" THEN Head(evs).payload ELSE <<>>)
         \o ConcatDeltas(Tail(evs))

ToolCount(evs) == Cardinality({i \in DOMAIN evs : evs[i].kind = "tool"})

Min(a, b) == IF a < b THEN a ELSE b

InFlight == pc \in {"fetch", "read"}

TurnEnds == InFlight /\ pc' = "idle"

Last(s) == s[Len(s)]

IsApology(m) == m.id = "error" /\ m.role = "assistant" /\ m.content = Apology

----------------------------------------------------------------------------
(* C1: idempotent framing.  When the transport has delivered the whole of  *)
(* a well-formed event stream, in whatever chunks, the events the read     *)
(* loop acted on are those it acts on when the stream is a single chunk.   *)
C1_IdempotentFraming ==
    (pc = "read" /\ pos = Len(response.body)
        /\ response.body \in WellFormedBodies)
    => events = WholeEvents(response.body)

(* C2: monotonic accumulation.  A turn that ends without failure appends   *)
(* one assistant message whose content is the concatenation, in arrival    *)
(* order, of the payloads of the text deltas decoded in the turn.          *)
C2_MonotonicAccumulation ==
    [][(TurnEnds /\ outcome' = "committed")
        => /\ Len(messages') = Len(messages) + 1
           /\ SubSeq(messages', 1, Len(messages)) = messages
           /\ Last(messages').role = "assistant"
           /\ Last(messages').id # "error"
           /\ Last(messages').content = ConcatDeltas(events)]_vars

C2_Witness ==
    /\ outcome = "committed"
    /\ messages # <<>>
    /\ Last(messages).role = "assistant"
    /\ Last(messages).content = <<"Sure, ", "adding it now.">>

(* C3: at-most-one sync.  A turn in which k tool-invocation events were    *)
(* decoded calls onTaskMutation exactly min(k,1) times.                    *)
C3_SyncMinK ==
    [][TurnEnds => syncCalls' = Min(ToolCount(events), 1)]_vars

(* C4: guard correctness.  handleSend called while a turn is in flight     *)
(* changes nothing: not the history, not the request, not the turn's       *)
(* accumulated text, partial text or sync flag; and there is never more    *)
(* than one request open.                                                  *)
C4_GuardCorrectness ==
    [][/\ (HandleSend /\ isTyping)
            => UNCHANGED <<messages, pc, response, pos, assistantContent,
                           currentResponse, needsSync, events, inputValue,
                           openRequests, isTyping>>
       /\ openRequests' <= 1]_vars

C4_Witness ==
    /\ isTyping
    /\ isOpen
    /\ Trim(inputValue) # <<>>
    /\ pc = "read"
    /\ assistantContent # <<>>
    /\ ENABLED HandleSend

(* C5: failure recovery.  A turn that fails at the transport (fetch        *)
(* rejects, or read() rejects after some chunks) appends exactly the       *)
(* apology message and nothing else; the guard then passes for every       *)
(* non-empty text; the submit that follows appends its user message, and   *)
(* the end of that turn appends its assistant message behind it.           *)
C5_FailureRecovery ==
    [][/\ (InFlight /\ outcome' = "failed")
            => /\ Len(messages') = Len(messages) + 1
               /\ SubSeq(messages', 1, Len(messages)) = messages
               /\ IsApology(Last(messages'))
               /\ \A v \in Inputs :
                    Trim(v) # <<>> => ~Guard(Trim(v), isTyping')
       /\ (outcome = "failed" /\ pc' = "fetch")
            => /\ Trim(inputValue) # <<>>
               /\ messages' = Append(messages, UserMsg(Trim(inputValue), now'))
       /\ TurnEnds
            => /\ Len(messages') > Len(messages)
               /\ SubSeq(messages', 1, Len(messages)) = messages
               /\ messages'[Len(messages) + 1].role = "assistant"]_vars

C5_Witness ==
    /\ Len(messages) = 4
    /\ messages[1].role = "user"
    /\ messages[2].id = "error"
    /\ messages[3].role = "user"
    /\ messages[3].content = <<"hi">>
    /\ messages[4].role = "assistant"
    /\ messages[4].id # "error"
    /\ ~isTyping

(* C6: unconditional return to Idle.  When the network settles every       *)
(* request, a turn in flight is always followed by isTyping = false.       *)
C6_ReturnsToIdle == isTyping ~> ~isTyping

C6_Witness ==
    /\ turns = MaxTurns
    /\ outcome = "failed"
    /\ ~isTyping
    /\ pc = "idle"

(* C7: ignore everything after terminal.  Once the terminal sentinel was   *)
(* decoded, no later frame of the turn adds text or sets the sync flag.    *)
C7_IgnoreAfterTerminal ==
    \A i, j \in DOMAIN events :
        (i < j /\ events[i].kind = "terminal")
        => /\ events[j].kind # "text"
           /\ events[j].kind = "tool"
                => \E k \in 1..(j - 1) : events[k].kind = "tool"

(* C8: a response with a non-success status takes the failure path even    *)
(* when it has a body: the turn appends the apology and nothing else.      *)
C8_NonOkFails ==
    [][(TurnEnds /\ pc = "read" /\ ~response.ok)
        => /\ outcome' = "failed"
           /\ Len(messages') = Len(messages) + 1
           /\ SubSeq(messages', 1, Len(messages)) = messages
           /\ IsApology(Last(messages'))]_vars

(* C9: no partial text is kept: whenever no turn is in flight the partial  *)
(* text is empty.                                                          *)
C9_NoPartialWhenIdle == ~isTyping => currentResponse = <<>>

(* C10: the sync flag survives to the failure path.  A turn that fails     *)
(* after a tool-invocation event was decoded still calls onTaskMutation    *)
(* exactly once.                                                           *)
C10_SyncSurvivesFailure ==
    [][(TurnEnds /\ outcome' = "failed" /\ ToolCount(events) >= 1)
        => syncCalls' = 1]_vars

(* C11: while a turn is in flight, between the append of its user message  *)
(* and the append of its assistant or apology message, nothing changes     *)
(* the history.                                                            *)
C11_HistoryStableInFlight ==
    [][(isTyping /\ isTyping') => messages' = messages]_vars

(* C12: no two messages of the history have the same id.                   *)
C12_UniqueIds ==
    \A i, j \in DOMAIN messages : i # j => messages[i].id # messages[j].id

(* A line of a chunk that carries a payload JSON.parse rejects *)
IsMalformed(line) ==
    /\ StartsWith(line, DataPrefix)
    /\ Trim(SliceData(line)) # DoneToken
    /\ ~JSONparse(Trim(SliceData(line))).ok

DropMalformed(lines) == SelectSeq(lines, LAMBDA l : ~IsMalformed(l))

(* C13: a frame whose payload does not parse is dropped silently: a read   *)
(* step leaves the turn exactly as the same chunk without its malformed    *)
(* lines would, so the frames after it are still processed and the history *)
(* is untouched; and no step that ends the turn is the read of a chunk.    *)
C13_MalformedDropped ==
    [][(pc = "read" /\ (pos' > pos \/ pc' = "idle")) =>
        IF pc' = "read"
        THEN /\ outcome' = outcome
             /\ messages' = messages
             /\ isTyping'
             /\ LET chunk == SubSeq(response.body, pos + 1, pos')
                    kept == ProcessLines(TurnView,
                                         DropMalformed(SplitLines(chunk)))
                IN  kept = [assistantContent |-> assistantContent',
                            needsSync |-> needsSync',
                            currentResponse |-> currentResponse',
                            events |-> events', threw |-> FALSE]
        ELSE ~ReadChunk]_vars

(* a malformed frame was read and the text frame after it was applied *)
C13_Witness ==
    /\ pc = "read"
    /\ response.body = BodyNoise
    /\ \E l \in DOMAIN SplitLines(SubSeq(BodyNoise, 1, pos)) :
          IsMalformed(SplitLines(SubSeq(BodyNoise, 1, pos))[l])
    /\ pos = Len(BodyNoise)
    /\ events = <<TextEvent(<<"ok">>)>>
    /\ assistantContent = <<"ok">>
    /\ ~needsSync
    /\ outcome = "running"

(* C14: when the response has no body the turn ends with the history being *)
(* the history before the submit, then the user message, then the apology; *)
(* no sync signal is emitted and the session is idle again.                *)
C14_MissingBody ==
    [][(FetchResolve /\ pc' = "idle") =>
        /\ Len(messages') = Len(turnStart) + 1
        /\ SubSeq(messages', 1, Len(turnStart)) = turnStart
        /\ IsApology(Last(messages'))
        /\ syncCalls' = 0
        /\ ~isTyping']_vars

(* C15: a history fetch that succeeds replaces the whole history by the    *)
(* sequence the server returned; one that fails leaves the history, the    *)
(* in-flight flag and the partial text as they were, so no error message   *)
(* is appended.                                                            *)
C15_HistoryFetch ==
    [][/\ HistoryResolve => messages' \in ServerHistories
       /\ HistoryReject =>
            UNCHANGED <<messages, isTyping, currentResponse>>
       /\ pendingHistory' < pendingHistory =>
            /\ UNCHANGED <<isTyping, currentResponse>>
            /\ messages' = messages \/ messages' \in ServerHistories]_vars

(* the stored history replaced a history that held a submitted message *)
C15_Witness ==
    /\ turns >= 1
    /\ historyCalls = 1
    /\ pendingHistory = 0
    /\ messages \in ServerHistories

(* C16: handleSend with a text that is empty after trimming changes        *)
(* nothing, whether the session is idle or a turn is in flight: history,   *)
(* in-flight flag, partial text and open requests stay as they are and no  *)
(* sync signal is emitted.                                                 *)
C16_BlankSubmitNoOp ==
    [][(HandleSend /\ Trim(inputValue) = <<>>)
            => UNCHANGED <<messages, isTyping, currentResponse, openRequests,
                           syncCalls, pc, turns>>]_vars

(* a text of white space only can be submitted in an idle session that     *)
(* already holds a finished turn                                           *)
C16_Witness ==
    /\ isOpen
    /\ inputValue = <<" ">>
    /\ ~isTyping
    /\ outcome = "committed"
    /\ turns < MaxTurns
    /\ ENABLED HandleSend

(* A line of a chunk whose payload parses to a record that is neither a    *)
(* text delta nor a tool call                                              *)
IsOtherType(line) ==
    /\ StartsWith(line, DataPrefix)
    /\ Trim(SliceData(line)) # DoneToken
    /\ JSONparse(Trim(SliceData(line))).ok
    /\ JSONparse(Trim(SliceData(line))).value.type \notin {"text", "tool_call"}

DropOtherType(lines) == SelectSeq(lines, LAMBDA l : ~IsOtherType(l))

(* C17: a record that parses but whose type is neither 'text' nor          *)
(* 'tool_call', or that has no type, has no effect: a read step leaves     *)
(* accumulated text, partial text, sync flag and events as the same chunk  *)
(* without such records would, the frames after it are processed, and the  *)
(* turn stays in the read loop.                                            *)
C17_OtherTypeIgnored ==
    [][(pc = "read" /\ (pos' > pos \/ pc' = "idle")) =>
        IF pc' = "read"
        THEN LET chunk == SubSeq(response.body, pos + 1, pos')
                 kept == ProcessLines(TurnView,
                                      DropOtherType(SplitLines(chunk)))
             IN  /\ kept = [assistantContent |-> assistantContent',
                            needsSync |-> needsSync',
                            currentResponse |-> currentResponse',
                            events |-> events', threw |-> FALSE]
                 /\ UNCHANGED <<messages, isTyping, outcome, syncCalls>>
        ELSE ~ReadChunk]_vars

(* records of an unknown type and of no type were read, the flag is still  *)
(* false and the text delta behind them is shown                           *)
C17_Witness ==
    /\ pc = "read"
    /\ response.body = BodyNoise
    /\ pos = Len(BodyNoise)
    /\ \E k, l \in DOMAIN SplitLines(BodyNoise) :
          /\ IsOtherType(SplitLines(BodyNoise)[k])
          /\ SliceData(SplitLines(BodyNoise)[k]) = Stringify(NoTypeRec)
          /\ k < l
          /\ StartsWith(SplitLines(BodyNoise)[l], DataPrefix)
          /\ ~IsOtherType(SplitLines(BodyNoise)[l])
    /\ currentResponse = <<"ok">>
    /\ needsSync = FALSE

(* C18: in a run where no history fetch has settled, the history holds the *)
(* user message of the turn in flight as its last message, and the step    *)
(* that ends the turn appends exactly one message behind it: the answer or *)
(* the apology, never both, also when the sync callback throws.            *)
C18_OneAssistantPerTurn ==
    [][(TurnEnds /\ pendingHistory = historyCalls) =>
        /\ Last(messages).role = "user"
        /\ Len(messages') = Len(messages) + 1
        /\ SubSeq(messages', 1, Len(messages)) = messages
        /\ Last(messages').role = "assistant"]_vars

(* C19: the sync signal is emitted only by the step that follows the end   *)
(* of the stream, and when it has been emitted the assistant message of    *)
(* the turn is in the history and the partial text is empty, also when     *)
(* the callback throws.                                                    *)
C19_SyncAfterCommit ==
    [][syncCalls' > syncCalls =>
        /\ pc = "read"
        /\ pos = Len(response.body)
        /\ pc' = "idle"
        /\ Len(messages') > Len(messages)
        /\ messages'[Len(messages) + 1] = AssistantMsg(assistantContent, now')
        /\ currentResponse' = <<>>]_vars

(* a turn with a tool call has committed its answer and signalled *)
C19_Witness ==
    /\ syncCalls = 1
    /\ outcome = "committed"
    /\ pc = "idle"
    /\ Last(messages).role = "assistant"
    /\ Last(messages).content = <<"Sure, ", "adding it now.">>
    /\ currentResponse = <<>>

(* C20: the accumulated text and the sync flag belong to one turn.  The    *)
(* read loop of every turn starts with an empty text and a false flag;     *)
(* the flag, once true, stays true while the turn reads; the committed     *)
(* answer is made of the text deltas of this turn only; and a sync signal  *)
(* is emitted only when this turn decoded a tool call.                     *)
C20_TurnStatePerTurn ==
    [][/\ (pc = "fetch" /\ pc' = "read")
            => assistantContent' = <<>> /\ needsSync' = FALSE
       /\ (pc = "read" /\ pc' = "read" /\ needsSync) => needsSync'
       /\ (TurnEnds /\ outcome' \in {"committed", "committedThenFailed"})
            => /\ Len(messages') > Len(messages)
               /\ messages'[Len(messages) + 1].content = ConcatDeltas(events)
       /\ syncCalls' > syncCalls => ToolCount(events) >= 1]_vars

(* a second turn committed the text "ok" without a sync signal, after a    *)
(* first turn that accumulated a text and decoded a tool call              *)
C20_Witness ==
    /\ turns = 2
    /\ Len(messages) = 4
    /\ messages[2].content = <<"Sure, ", "adding it now.">>
    /\ messages[4].content = <<"ok">>
    /\ messages[4].role = "assistant"
    /\ outcome = "committed"
    /\ syncCalls = 0
    /\ pc = "idle"

IsPrefix(s, t) == Len(s) <= Len(t) /\ SubSeq(t, 1, Len(s)) = s

(* C21: while a turn is in flight the partial text is the concatenation of *)
(* the text deltas the turn has processed so far; from one step of the     *)
(* turn to the next it only grows at its end; and when the turn commits,   *)
(* the content of the assistant message is the last partial text.          *)
C21_PartialTextIsAccumulation ==
    [][/\ InFlight' => currentResponse' = ConcatDeltas(events')
       /\ (InFlight /\ InFlight') => IsPrefix(currentResponse, currentResponse')
       /\ (TurnEnds /\ outcome' \in {"committed", "committedThenFailed"})
            => /\ Len(messages') > Len(messages)
               /\ messages'[Len(messages) + 1].content = currentResponse]_vars

(* two text deltas have been processed and the turn still reads *)
C21_Witness ==
    /\ pc = "read"
    /\ isTyping
    /\ response.body = BodyA
    /\ events = <<TextEvent(<<"Sure, ">>), TextEvent(<<"adding it now.">>)>>
    /\ currentResponse = <<"Sure, ", "adding it now.">>

====
